---- MODULE Spec2Model ----
(***************************************************************************)
(* WASIO request-dispatch runtime (src/main.go): the compiled-module       *)
(* cache, the TTL response cache and Server.ServeHTTP / Server.runWASM,    *)
(* run by concurrent request goroutines.                                   *)
(*                                                                         *)
(* Every action is one atomic step of a request goroutine: a critical      *)
(* section of one of the two cache mutexes, or a call into the engine or   *)
(* the file system, followed by the goroutine-local code up to the next    *)
(* such point.  The engine (wazero), the file system and the clock are the *)
(* environment: their results are drawn nondeterministically.  The         *)
(* ServerStats counters, which are written under their own mutex and read  *)
(* by no step of the dispatch path, are not part of the state.             *)
(***************************************************************************)
EXTENDS Integers, FiniteSets, Sequences, TLC

(***************************************************************************)
(* Bounds of the model.                                                    *)
(***************************************************************************)
MaxRequests == 2     \* requests served in one behaviour
MaxTime == 2         \* the clock runs 0..MaxTime (seconds)

\* The request goroutines: net/http runs every request on its own goroutine;
\* two of them give every pairwise interleaving of the handler's steps.
Threads == {"g1", "g2"}

\* The capacities cfg.CacheSize is drawn from (LoadConfig leaves it positive).
\* With two response keys and two wasm files, capacity 1 evicts on every
\* second key and capacity 2 fills exactly; a larger one never fills.
CacheSizes == {1, 2}

(***************************************************************************)
(* Configuration: the route table of the loaded Config.  TTLs are in       *)
(* seconds, as in config.json, scaled to the clock of the model.           *)
(***************************************************************************)
Route(wasm, cache, ttl) == [WASMFile |-> wasm, Cache |-> cache, TTL |-> ttl]

Routes ==
    [p \in {"/fibonacci", "/hello_world"} |->
        IF p = "/fibonacci"
        THEN Route("fibonacci.wasm", TRUE, 1)
        ELSE Route("hello_world.wasm", FALSE, 0)]

\* The settings of the config file the server is started with, but for
\* cache_size, which is drawn from CacheSizes.
Cfg == [CacheTTL |-> 2, IndexPage |-> TRUE, Monitoring |-> TRUE, Routes |-> Routes]

\* A parsed config file: the JSON values (an absent number parses as 0) and
\* the set of top-level keys the file spells out.
ConfigFile(ttl, size, routes) ==
    [CacheTTL |-> ttl, CacheSize |-> size, IndexPage |-> Cfg.IndexPage,
     Monitoring |-> Cfg.Monitoring, Routes |-> routes,
     Keys |-> {"index_page", "monitoring"}]

ConfigFiles == {ConfigFile(Cfg.CacheTTL, s, Cfg.Routes) : s \in CacheSizes}

\* if cfg.CacheTTL <= 0 { cfg.CacheTTL = 300 }
DefaultCacheTTL == 300

\* if cfg.CacheSize <= 0 { cfg.CacheSize = 1024 }
DefaultCacheSize == 1024

\* LoadConfig with the defaults applied to negative values only.
LoadConfigZeroKept(file) ==
    [CacheTTL   |-> IF file.CacheTTL < 0 THEN DefaultCacheTTL ELSE file.CacheTTL,
     CacheSize  |-> IF file.CacheSize < 0 THEN DefaultCacheSize ELSE file.CacheSize,
     IndexPage  |-> IF "index_page" \in file.Keys THEN file.IndexPage ELSE TRUE,
     Monitoring |-> IF "monitoring" \in file.Keys THEN file.Monitoring ELSE TRUE,
     Routes     |-> file.Routes]

\* LoadConfig: the Config the server runs with, defaults applied.
LoadConfig(file) ==
    [CacheTTL   |-> IF file.CacheTTL <= 0 THEN DefaultCacheTTL ELSE file.CacheTTL,
     CacheSize  |-> IF file.CacheSize <= 0 THEN DefaultCacheSize ELSE file.CacheSize,
     IndexPage  |-> IF "index_page" \in file.Keys THEN file.IndexPage ELSE TRUE,
     Monitoring |-> IF "monitoring" \in file.Keys THEN file.Monitoring ELSE TRUE,
     Routes     |-> file.Routes]

WasmFiles == {Routes[p].WASMFile : p \in DOMAIN Routes}

\* The (path, raw query) pairs a client sends.
RequestInputs ==
    { <<"/fibonacci", "">>, <<"/fibonacci", "n=10">>,
      <<"/hello_world", "">>, <<"/missing", "">>, <<"/health", "">> }

\* What a module run can leave on its stdout.
Outputs == {"", "55"}

FileStates == {"missing", "corrupt", "valid"}

\* The error values of the engine and of runWASM ("nil" is no error).
NoErr == "nil"

\* The zero value of a compiled-module handle (no module).
NoModule == 0

\* Zero values: a cache entry that was not found, a response not yet written,
\* a Set that never happened.
NoEntry == [ok |-> FALSE, data |-> "", expiresAt |-> 0]
NoResponse == [status |-> 0, body |-> ""]
NoSet == [set |-> FALSE, data |-> "", time |-> 0, ttl |-> 0, by |-> <<"", "">>]

(***************************************************************************)
(* Go maps.                                                                *)
(***************************************************************************)
EmptyMap == [k \in {} |-> 0]

MapPut(m, k, v) == [x \in DOMAIN m \cup {k} |-> IF x = k THEN v ELSE m[x]]

MapDelete(m, k) == [x \in DOMAIN m \ {k} |-> m[x]]

MapLen(m) == Cardinality(DOMAIN m)

(***************************************************************************)
(* The pure parts of the code.                                             *)
(***************************************************************************)

\* The switch with a default case: a built-in handler answers every path
\* that is not a route.
BuiltInOrUnrouted(path, cfg) ==
    \/ path = "/health"
    \/ path = "/" /\ cfg.IndexPage
    \/ path \in {"/monitoring", "/stats"} /\ cfg.Monitoring
    \/ path \notin DOMAIN cfg.Routes

\* The switch without the tests of the two flags.
BuiltInWhateverFlags(path, cfg) ==
    path \in {"/health", "/", "/monitoring", "/stats"}

\* switch path { case "/health": ...; case "/": if IndexPage ...;
\* case "/monitoring", "/stats": if Monitoring ... }: a built-in handler
\* answers and ServeHTTP returns.
BuiltIn(path, cfg) ==
    \/ path = "/health"
    \/ path = "/" /\ cfg.IndexPage
    \/ path \in {"/monitoring", "/stats"} /\ cfg.Monitoring

\* key := path + "?" + r.URL.RawQuery
KeyOfPathOnly(path, query) == path \o "?"

Key(path, query) == path \o "?" \o query

\* if len(cache) >= size { evict one }
CacheFullOffByOne(len, size) == len > size

CacheFull(len, size) == len >= size

\* for k := range cache { delete(cache, k); break }: the maps that can result
\* (Go's map iteration order is unspecified, so any one key can go).
EvictOne(m) ==
    IF DOMAIN m = {} THEN {m} ELSE {MapDelete(m, k) : k \in DOMAIN m}

\* The maps a cache insert can start from once room has been made.
MakeRoom(m, size) == IF CacheFull(MapLen(m), size) THEN EvictOne(m) ELSE {m}

\* ResponseCache.Set's critical section: the maps it can leave behind.
SetMapsKeepFirst(m, size, key, data, expiresAt) ==
    IF key \in DOMAIN m THEN {m}
    ELSE {MapPut(m2, key, [data |-> data, expiresAt |-> expiresAt]) :
             m2 \in MakeRoom(m, size)}

SetMaps(m, size, key, data, expiresAt) ==
    {MapPut(m2, key, [data |-> data, expiresAt |-> expiresAt]) :
        m2 \in MakeRoom(m, size)}

\* The compiled modules that are closed once eviction has taken the map from
\* m to m2: ModuleCache.Get only deletes the map entry and closes nothing.
ClosedByEvictionEager(closed, m, m2) ==
    closed \cup {m[k] : k \in DOMAIN m \ DOMAIN m2}

ClosedByEviction(closed, m, m2) == closed

\* What ModuleCache.Get leaves in the map when reading or compiling fails:
\* it returns the error before the map is touched.
CacheNilAfterFailure(m, path) == MapPut(m, path, NoModule)

CacheAfterFailure(m, path) == m

\* The comparison the other way round.
ExpiredBefore(t, expiresAt) == t < expiresAt

\* time.Now().After(cr.expiresAt)
Expired(t, expiresAt) == t > expiresAt

\* if data, found := s.respC.Get(key, s.stats); found { w.Write(data); return }
NeverServedFromCache(found) == FALSE

ServedFromCache(found) == found

\* if route.Cache { ... }: the guard of both response-cache accesses.
AlwaysUsesResponseCache(route) == TRUE

UsesResponseCache(route) == route.Cache

\* ttl := cfg.CacheTTL seconds; if route.TTL > 0 { ttl = route.TTL seconds }
EffectiveTTLGlobalOnly(route, cacheTTL) == cacheTTL

EffectiveTTL(route, cacheTTL) == IF route.TTL > 0 THEN route.TTL ELSE cacheTTL

\* getTTL: the TTL the index page and the dashboard show for a route.
getTTL(route, defaultTTL) == IF route.TTL > 0 THEN route.TTL ELSE defaultTTL

\* What _start's Call can return: nil, a WASI exit with a code, a trap, or
\* the error of a cancelled context.
CallErrors == {"nil", "exit0", "exit1", "trap", "canceled"}

\* errors.As(err, &exitErr): the error carries an exit code.
HasExitCode(err) == err \in {"exit0", "exit1"}

ExitCode(err) == IF err = "exit0" THEN 0 ELSE 1

\* runWASM's return value after the call: a clean exit(0) is not an error.
RunResultRaw(err) == err

RunResult(err) ==
    IF err # NoErr /\ HasExitCode(err) /\ ExitCode(err) = 0 THEN NoErr ELSE err

\* if err := s.runWASM(...); err != nil { 500; return }
RunFailedUnlessTrap(err) == err \notin {NoErr, "trap"}

RunFailed(err) == err # NoErr

\* defer instance.Close(ctx): the instances left live when runWASM returns
\* with the given error from the call.
LiveAfterReturnNoDefer(live, err) == IF err = NoErr THEN 0 ELSE live

LiveAfterReturn(live, err) == 0


(***************************************************************************)
(* State.                                                                  *)
(***************************************************************************)
VARIABLES
    now,          \* the wall clock, in seconds
    configFile,   \* history: cache_ttl and cache_size as the config file gave them
    cfg,          \* Server.cfg: the Config LoadConfig made of it
    cacheSize,    \* ModuleCache.size and ResponseCache.size (cfg.CacheSize)
    modCache,     \* ModuleCache.cache: wasm path -> compiled module
    respCache,    \* ResponseCache.cache: key -> [data, expiresAt]
    nextMod,      \* the next compiled module CompileModule returns
    closedMods,   \* the compiled modules that have been closed
    served,       \* requests accepted so far
    g,            \* the locals of each request goroutine (see NoLocals)
    h,            \* history: what each request has done (see NoHistory)
    compiled,     \* history: the wasm paths of which a compile has completed
    lastSet,      \* history: per key, the most recent ResponseCache.Set
    lk,           \* the cache mutexes and their callers, step by step (see NoLocks)
    lastCall,     \* history: the latest _start call of the observed client
    evicted,      \* history: the compiled modules eviction took out of the map
    run,          \* one request's payload and runWASM, step by step (see NoRun)
    reload,       \* the watched config: Configs, maps, watcher and GetRoutes calls
    boot,         \* main from LoadConfig to the first requests' choice of handler
    stats         \* ServerStats: its mutex, its counters and the goroutines in its methods

\* What main sets up once and no request changes.
conf == <<configFile, cfg, cacheSize>>

\* What only the specifications that observe it change.
\* The state of the specifications of one part of the program.
parts == <<run, reload, boot, stats>>

aux == <<lk, lastCall, evicted, parts>>

vars == <<now, conf, modCache, respCache, nextMod, closedMods, served,
          g, h, compiled, lastSet, aux>>

\* The locals of ServeHTTP, runWASM, ModuleCache.Get and ResponseCache.Get.
NoLocals ==
    [ pc        |-> "idle",      \* where the goroutine is
      path      |-> "",          \* r.URL.Path
      query     |-> "",          \* r.URL.RawQuery
      cr        |-> NoEntry,     \* ResponseCache.Get: the entry read
      last      |-> NoSet,       \* (history) the latest Set of the key then
      wasmBytes |-> "unread",    \* ModuleCache.Get: what os.ReadFile found
      mod       |-> NoModule,    \* runWASM: the compiled module
      buf       |-> "",          \* ServeHTTP: the stdout buffer
      instance  |-> 0,           \* runWASM: live instances of the request
      err       |-> NoErr,       \* what runWASM returned
      resp      |-> NoResponse ] \* what went to the ResponseWriter

\* What a request has done so far: calls made, cache maps written, whether
\* its ModuleCache.Get began before any compile of its path had completed
\* (cold) or after another request's load of that path had failed (retry),
\* and what its ResponseCache.Get returned: hit or miss and the data, whether
\* the entry it read was present and the clock before its expiresAt, and
\* whether, which data and still live (time + ttl > now) the latest Set of
\* the key was, and whether a request with the same path and raw query made it.
NoHistory ==
    [ rcGet |-> 0, rcSet |-> 0, rcWrites |-> 0, modGet |-> 0, mcWrites |-> 0,
      inst |-> 0, start |-> 0, cold |-> FALSE, retry |-> FALSE,
      get |-> [returned |-> FALSE, hit |-> FALSE, data |-> "",
               present |-> FALSE, beforeExpiry |-> FALSE,
               setSeen |-> FALSE, setData |-> "", setLive |-> FALSE,
               setBySame |-> FALSE] ]

RouteOf(t) == cfg.Routes[g[t].path]
KeyOf(t) == Key(g[t].path, g[t].query)
InFlight(t) == g[t].pc \notin {"idle", "done"}

\* No _start call has been observed.
NoCall == [made |-> FALSE, cancelled |-> FALSE, err |-> NoErr, out |-> ""]

\* The two caches, each with its own sync.RWMutex.
Caches == {"mod", "resp"}

\* A free RWMutex: no reader holds it, no writer holds it.
Unlocked == [readers |-> {}, writer |-> "none"]

\* A goroutine that is in no cache method: the steps it has still to take
\* (none), and the method's arguments and locals.  lk.op holds the goroutines
\* that are inside a method.
NoOp ==
    [todo |-> <<>>, cache |-> "", key |-> "", data |-> "", ttl |-> 0,
     found |-> FALSE, mod |-> NoModule, expiresAt |-> 0]

\* The cache mutexes are free and no caller is inside a cache method.
NoLocks ==
    [mu |-> [c \in Caches |-> Unlocked], op |-> EmptyMap, calls |-> 0,
     used |-> <<>>]

\* No request is being followed through its payload and runWASM: the reads of
\* rand.Reader that have succeeded so far and the seeds that runs of _start
\* were given.
NoRun == [pc |-> "idle", draws |-> 0, used |-> <<>>]

\* No config file is watched.
NoReload == [on |-> FALSE]

\* main has not loaded the config file yet.
NoBoot == [pc |-> "off"]

\* NewServerStats has not been called yet.
NoStats == [on |-> FALSE]

TypeOK ==
    /\ now \in 0..MaxTime
    /\ cacheSize = cfg.CacheSize
    /\ DOMAIN modCache \subseteq WasmFiles
    /\ served \in 0..MaxRequests
    /\ \A t \in Threads : g[t].instance \in 0..1

\* main: LoadConfig, NewServer (both caches empty, sized cfg.CacheSize).
Started(files) ==
    /\ now = 0
    /\ \E file \in files :
         /\ configFile = [CacheTTL |-> file.CacheTTL, CacheSize |-> file.CacheSize]
         /\ cfg = LoadConfig(file)
    /\ cacheSize = cfg.CacheSize
    /\ modCache = EmptyMap
    /\ respCache = EmptyMap
    /\ nextMod = 1
    /\ closedMods = {}
    /\ served = 0
    /\ g = [t \in Threads |-> NoLocals]
    /\ h = [t \in Threads |-> NoHistory]
    /\ compiled = {}
    /\ lastSet = EmptyMap
    /\ lk = NoLocks
    /\ lastCall = NoCall
    /\ evicted = {}
    /\ run = NoRun
    /\ reload = NoReload
    /\ boot = NoBoot
    /\ stats = NoStats

Init == Started(ConfigFiles)

\* The request is over: the handler's locals go out of scope.
Finished(l, resp) ==
    [l EXCEPT !.pc = "done", !.resp = resp, !.cr = NoEntry, !.last = NoSet,
              !.mod = NoModule, !.buf = ""]

InternalError == [status |-> 500, body |-> "internal server error"]

\* http.Error(w, "internal server error", 500): what goes to the client when
\* runWASM has failed with buf holding the stdout captured so far.
ErrorResponseWithOutput(buf) ==
    [status |-> 500, body |-> buf \o "internal server error"]

ErrorResponse(buf) == InternalError

(***************************************************************************)
(* Server.ServeHTTP, up to the response-cache lookup.                      *)
(***************************************************************************)

\* A goroutine takes a new request: the built-in endpoints, the route
\* lookup, 404 for an unknown path, otherwise on to the response cache
\* (cacheable route) or to runWASM.
Accept(t, inputs) ==
    /\ ~InFlight(t)
    /\ served < MaxRequests
    /\ served' = served + 1
    /\ \E in \in inputs :
         LET l == [NoLocals EXCEPT !.path = in[1], !.query = in[2]] IN
           g' = [g EXCEPT ![t] =
                   IF BuiltIn(in[1], cfg)
                   THEN Finished(l, [status |-> 200, body |-> "built-in"])
                   ELSE IF in[1] \notin DOMAIN cfg.Routes
                   THEN Finished(l, [status |-> 404, body |-> "404 page not found"])
                   ELSE [l EXCEPT !.pc = IF UsesResponseCache(cfg.Routes[in[1]])
                                         THEN "rcLookup" ELSE "modLookup"]]
    /\ h' = [h EXCEPT ![t] = NoHistory]
    /\ UNCHANGED <<now, conf, lk, evicted, parts, modCache, respCache, nextMod, closedMods,
                   compiled, lastSet>>

Begin(t) == Accept(t, RequestInputs) /\ UNCHANGED lastCall

(***************************************************************************)
(* ResponseCache.Get: the map read under RLock, then the expiry test       *)
(* against a clock read after RUnlock.                                     *)
(***************************************************************************)
RespLookup(t) ==
    /\ g[t].pc = "rcLookup"
    /\ g' = [g EXCEPT ![t].pc = "rcCheck",
                      ![t].cr = IF KeyOf(t) \in DOMAIN respCache
                                THEN [ok |-> TRUE,
                                      data |-> respCache[KeyOf(t)].data,
                                      expiresAt |-> respCache[KeyOf(t)].expiresAt]
                                ELSE NoEntry,
                      ![t].last = IF KeyOf(t) \in DOMAIN lastSet
                                  THEN lastSet[KeyOf(t)] ELSE NoSet]
    /\ h' = [h EXCEPT ![t].rcGet = @ + 1]
    /\ UNCHANGED <<now, conf, aux, modCache, respCache, nextMod, closedMods,
                   served, compiled, lastSet>>

\* Get returns (cr.data, true) or (nil, false) and its locals are gone; on a
\* hit ServeHTTP writes the data and returns, on a miss it builds the payload
\* and goes on to runWASM.
RespCheck(t) ==
    /\ g[t].pc = "rcCheck"
    /\ LET cr == g[t].cr
           found == cr.ok /\ ~Expired(now, cr.expiresAt)
           data == IF found THEN cr.data ELSE ""
       IN
         /\ h' = [h EXCEPT ![t].get =
                     [returned |-> TRUE, hit |-> found, data |-> data,
                      present |-> cr.ok,
                      beforeExpiry |-> cr.ok /\ now < cr.expiresAt,
                      setSeen |-> g[t].last.set,
                      setData |-> g[t].last.data,
                      setLive |-> g[t].last.set
                                  /\ g[t].last.time + g[t].last.ttl > now,
                      setBySame |-> g[t].last.set
                                    /\ g[t].last.by = <<g[t].path, g[t].query>>]]
         /\ g' = [g EXCEPT ![t] =
                     IF found /\ ServedFromCache(found)
                     THEN Finished(@, [status |-> 200, body |-> data])
                     ELSE [@ EXCEPT !.pc = "modLookup", !.cr = NoEntry,
                                    !.last = NoSet]]
    /\ UNCHANGED <<now, conf, aux, modCache, respCache, nextMod, closedMods,
                   served, compiled, lastSet>>

(***************************************************************************)
(* Server.runWASM: ModuleCache.Get.                                        *)
(***************************************************************************)

\* runWASM returned err: ServeHTTP answers 500 and returns.
Failed(l, err) == Finished([l EXCEPT !.err = err], ErrorResponse(l.buf))

\* Some request's read or compile of this wasm path has failed.
LoadFailedFor(path) ==
    \E u \in Threads : /\ g[u].err \in {"read", "compile"}
                       /\ cfg.Routes[g[u].path].WASMFile = path

\* The lookup under RLock.
ModLookup(t) ==
    /\ g[t].pc = "modLookup"
    /\ LET path == RouteOf(t).WASMFile IN
         /\ g' = [g EXCEPT ![t] =
                     IF path \in DOMAIN modCache
                     THEN [@ EXCEPT !.pc = "instantiate", !.mod = modCache[path]]
                     ELSE [@ EXCEPT !.pc = "compile"]]
         /\ h' = [h EXCEPT ![t].modGet = @ + 1,
                           ![t].cold = (path \notin compiled),
                           ![t].retry = LoadFailedFor(path)]
    /\ UNCHANGED <<now, conf, aux, modCache, respCache, nextMod, closedMods,
                   served, compiled, lastSet>>

\* os.ReadFile and rt.CompileModule, outside any lock.  What the file holds
\* at that moment is the environment's choice.
LoadCompile(t) ==
    /\ g[t].pc = "compile"
    /\ \E bytes \in FileStates :
         LET path == RouteOf(t).WASMFile IN
           IF bytes = "valid"
           THEN /\ g' = [g EXCEPT ![t].pc = "insert", ![t].wasmBytes = bytes,
                                  ![t].mod = nextMod]
                /\ nextMod' = nextMod + 1
                /\ compiled' = compiled \cup {path}
                /\ UNCHANGED <<modCache, h>>
           ELSE /\ g' = [g EXCEPT ![t] =
                           Failed([@ EXCEPT !.wasmBytes = bytes],
                                  IF bytes = "missing" THEN "read" ELSE "compile")]
                /\ modCache' = CacheAfterFailure(modCache, path)
                /\ h' = [h EXCEPT ![t].mcWrites =
                           IF modCache' # modCache THEN @ + 1 ELSE @]
                /\ UNCHANGED <<nextMod, compiled>>
    /\ UNCHANGED <<now, conf, aux, respCache, closedMods, served, lastSet>>

\* The insert under Lock, after eviction has left the map m.
Inserted(t, m) ==
    /\ g[t].pc = "insert"
    /\ m \in MakeRoom(modCache, cacheSize)
    /\ modCache' = MapPut(m, RouteOf(t).WASMFile, g[t].mod)
    /\ closedMods' = ClosedByEviction(closedMods, modCache, m)
    /\ g' = [g EXCEPT ![t].pc = "instantiate"]
    /\ h' = [h EXCEPT ![t].mcWrites = @ + 1]
    /\ UNCHANGED <<now, conf, lk, lastCall, parts, respCache, nextMod, served,
                   compiled, lastSet>>

ModInsert(t) ==
    /\ g[t].pc = "insert"
    /\ \E m \in MakeRoom(modCache, cacheSize) : Inserted(t, m)
    /\ UNCHANGED evicted

(***************************************************************************)
(* Server.runWASM: instantiate, call _start, close the instance.  The      *)
(* engine calls take the request's context, which the client may have      *)
(* cancelled by the time _start returns; whether the engine reports that   *)
(* is up to the engine.                                                    *)
(***************************************************************************)
Instantiate(t) ==
    /\ g[t].pc = "instantiate"
    /\ \E ok \in BOOLEAN :
         g' = [g EXCEPT ![t] =
                 IF ok
                 THEN [@ EXCEPT !.pc = "call", !.instance = @ + 1]
                 ELSE Failed(@, "instantiate")]
    /\ h' = [h EXCEPT ![t].inst = @ + 1]
    /\ UNCHANGED <<now, conf, aux, modCache, respCache, nextMod, closedMods,
                   served, compiled, lastSet>>

\* _start returns err after writing out to stdout, with the request's context
\* cancelled or not; the deferred Close runs and runWASM returns, its locals
\* gone; ServeHTTP answers 500 on an error, else goes on to cache or write.
Called(t, cancelled, err, out) ==
    /\ g[t].pc = "call"
    /\ err = "canceled" => cancelled
    /\ LET l == [g[t] EXCEPT !.buf = out, !.mod = NoModule,
                             !.instance = LiveAfterReturn(@, err),
                             !.err = RunResult(err)]
       IN
         g' = [g EXCEPT ![t] =
                 IF RunFailed(RunResult(err))
                 THEN Finished(l, ErrorResponse(out))
                 ELSE IF UsesResponseCache(RouteOf(t))
                      THEN [l EXCEPT !.pc = "rcSet"]
                      ELSE Finished(l, [status |-> 200, body |-> out])]
    /\ h' = [h EXCEPT ![t].start = @ + 1]
    /\ UNCHANGED <<now, conf, lk, evicted, parts, modCache, respCache, nextMod, closedMods,
                   served, compiled, lastSet>>

StartCall(t) ==
    /\ g[t].pc = "call"
    /\ \E cancelled \in BOOLEAN, err \in CallErrors, out \in Outputs :
         Called(t, cancelled, err, out)
    /\ UNCHANGED lastCall

(***************************************************************************)
(* ResponseCache.Set under Lock, then w.Write(output).                     *)
(***************************************************************************)
RespSet(t) ==
    /\ g[t].pc = "rcSet"
    /\ LET ttl == EffectiveTTL(RouteOf(t), cfg.CacheTTL) IN
         /\ respCache' \in SetMaps(respCache, cacheSize, KeyOf(t), g[t].buf,
                                    now + ttl)
         /\ lastSet' = MapPut(lastSet, KeyOf(t),
                              [set |-> TRUE, data |-> g[t].buf,
                               time |-> now, ttl |-> ttl,
                               by |-> <<g[t].path, g[t].query>>])
    /\ g' = [g EXCEPT ![t] = Finished(@, [status |-> 200, body |-> g[t].buf])]
    /\ h' = [h EXCEPT ![t].rcSet = @ + 1, ![t].rcWrites = @ + 1]
    /\ UNCHANGED <<now, conf, aux, modCache, nextMod, closedMods, served,
                   compiled>>

(***************************************************************************)
(* The clock.                                                              *)
(***************************************************************************)
\* A second passes.  The server reads the clock in ResponseCache.Set, to
\* compute an expiresAt, and in ResponseCache.Get, to compare with one, so
\* only the time since a Set can make a difference to it: the seconds are
\* counted from the first Set on.
Tick ==
    /\ now < MaxTime
    /\ lastSet # EmptyMap
    /\ now' = now + 1
    /\ UNCHANGED <<conf, aux, modCache, respCache, nextMod, closedMods, served,
                   g, h, compiled, lastSet>>

Next ==
    \/ \E t \in Threads : Begin(t)
    \/ \E t \in Threads : RespLookup(t)
    \/ \E t \in Threads : RespCheck(t)
    \/ \E t \in Threads : ModLookup(t)
    \/ \E t \in Threads : LoadCompile(t)
    \/ \E t \in Threads : ModInsert(t)
    \/ \E t \in Threads : Instantiate(t)
    \/ \E t \in Threads : StartCall(t)
    \/ \E t \in Threads : RespSet(t)
    \/ Tick

Spec == Init /\ [][Next]_vars

(***************************************************************************)
(* The same server, with the history of evictions recorded and the         *)
(* scheduling stated: the Go scheduler runs every runnable goroutine, so a *)
(* request that can take a step eventually takes one, and the clock ticks. *)
(***************************************************************************)

\* The compiled modules CompileModule can have returned.
Modules == 1..MaxRequests

\* The insert, with the modules that eviction took out of the map recorded.
EvictingInsert(t) ==
    /\ g[t].pc = "insert"
    /\ \E m \in MakeRoom(modCache, cacheSize) :
         /\ Inserted(t, m)
         /\ evicted' = evicted \cup {modCache[k] : k \in DOMAIN modCache \ DOMAIN m}

\* One step of request goroutine t.
Step(t) ==
    \/ Begin(t)
    \/ RespLookup(t)
    \/ RespCheck(t)
    \/ ModLookup(t)
    \/ LoadCompile(t)
    \/ EvictingInsert(t)
    \/ Instantiate(t)
    \/ StartCall(t)
    \/ RespSet(t)

FairNext ==
    \/ \E t \in Threads : Step(t)
    \/ Tick

FairSpec ==
    /\ Init
    /\ [][FairNext]_vars
    /\ \A t \in Threads : WF_vars(Step(t))
    /\ WF_vars(Tick)

(***************************************************************************)
(* One client that sends one request at a time, to a server started with   *)
(* any of a range of config files; the outcome of the client's latest      *)
(* _start call is recorded.                                                *)
(***************************************************************************)
Client == "g1"

\* The route table with the cacheable route's ttl set.
RoutesWithTTL(ttl) == [Routes EXCEPT !["/fibonacci"].TTL = ttl]

\* cache_ttl absent or given, cache_size absent or given, the cacheable
\* route's ttl absent or given.
SeqConfigFiles ==
    {ConfigFile(c, s, RoutesWithTTL(r)) :
        c \in {0, Cfg.CacheTTL}, s \in {0, 1}, r \in {0, 1}}

\* Three raw queries for the cacheable route, two of which differ only in
\* the order of their parameters.
SeqInputs ==
    { <<"/fibonacci", "">>, <<"/fibonacci", "a=1&b=2">>,
      <<"/fibonacci", "b=2&a=1">>, <<"/hello_world", "">> }

SeqBegin == Accept(Client, SeqInputs) /\ lastCall' = NoCall

SeqStartCall ==
    /\ g[Client].pc = "call"
    /\ \E cancelled \in BOOLEAN, err \in CallErrors, out \in Outputs :
         /\ Called(Client, cancelled, err, out)
         /\ lastCall' = [made |-> TRUE, cancelled |-> cancelled,
                         err |-> err, out |-> out]

SeqNext ==
    \/ SeqBegin
    \/ RespLookup(Client)
    \/ RespCheck(Client)
    \/ ModLookup(Client)
    \/ LoadCompile(Client)
    \/ ModInsert(Client)
    \/ Instantiate(Client)
    \/ SeqStartCall
    \/ RespSet(Client)
    \/ Tick

SeqSpec == Started(SeqConfigFiles) /\ [][SeqNext]_vars

(***************************************************************************)
(* The two caches on their own, called concurrently with any arguments,    *)
(* every mutex operation and every map access a step of its own:           *)
(* ModuleCache.Get, ResponseCache.Get and ResponseCache.Set.               *)
(***************************************************************************)
MaxOps == 3          \* cache method calls in one behaviour

\* The keys the methods are called with and the TTLs Set is given.
CacheKeys(c) ==
    IF c = "mod" THEN WasmFiles
    ELSE {Key(in[1], in[2]) : in \in {<<"/fibonacci", "">>, <<"/fibonacci", "n=10">>}}

SetTTLs == {0, 1}

\* The steps of a lookup (both Get methods): RLock, the map read, RUnlock.
GetSteps == <<"rlock", "read", "runlock">>

\* The steps of ModuleCache.Get after a miss: read and compile the file,
\* then Lock, evict if full, store, Unlock (deferred).
GetMissStepsCompileUnderLock == <<"lock", "compile", "evict", "store", "unlock">>

GetMissSteps == <<"compile", "lock", "evict", "store", "unlock">>

\* ModuleCache.Get that compiles and stores whatever the lookup found.
AfterLookupAlwaysCompile(c, found) == IF c = "mod" THEN GetMissSteps ELSE <<>>

\* What a Get has still to do after its lookup: ModuleCache.Get goes on
\* after a miss, and returns after a hit; ResponseCache.Get returns.
AfterLookup(c, found) == IF c = "mod" /\ ~found THEN GetMissSteps ELSE <<>>

\* The steps of ResponseCache.Set: Lock, evict if full, store, Unlock.
SetStepsUnlocked == <<"evict", "store">>

SetSteps == <<"lock", "evict", "store", "unlock">>

\* The cache method goroutine t is in.
Op(t) == IF t \in DOMAIN lk.op THEN lk.op[t] ELSE NoOp

\* Where goroutine t is inside its cache method.
At(t) == IF Op(t).todo = <<>> THEN "idle" ELSE Head(Op(t).todo)

\* Goroutine t has taken its step and goes on with the steps todo; with none
\* left the method returns and its locals are gone.
Advance(t, todo) ==
    IF todo = <<>> THEN MapDelete(lk.op, t) ELSE [lk.op EXCEPT ![t].todo = todo]

\* History of the module cache's use: lk.used lists the keys in the map from
\* the least to the most recently used, a key being used when a Get finds
\* it in the map and when a Get stores it.
Touch(used, k) == Append(SelectSeq(used, LAMBDA x : x # k), k)

Drop(used, gone) == SelectSeq(used, LAMBDA x : x \notin gone)

\* The map of a cache.
MapOf(c) == IF c = "mod" THEN modCache ELSE respCache

CallGet(t) ==
    /\ At(t) = "idle" /\ lk.calls < MaxOps
    /\ \E c \in Caches : \E k \in CacheKeys(c) :
         lk' = [lk EXCEPT !.calls = @ + 1,
                          !.op = MapPut(@, t, [NoOp EXCEPT !.todo = GetSteps,
                                                           !.cache = c, !.key = k])]
    /\ UNCHANGED <<now, conf, modCache, respCache, nextMod, closedMods, served,
                   g, h, compiled, lastSet, lastCall, evicted, parts>>

CallSet(t) ==
    /\ At(t) = "idle" /\ lk.calls < MaxOps
    /\ \E k \in CacheKeys("resp"), data \in Outputs, ttl \in SetTTLs :
         lk' = [lk EXCEPT !.calls = @ + 1,
                          !.op = MapPut(@, t, [NoOp EXCEPT !.todo = SetSteps,
                                                           !.cache = "resp", !.key = k,
                                                           !.data = data, !.ttl = ttl])]
    /\ UNCHANGED <<now, conf, modCache, respCache, nextMod, closedMods, served,
                   g, h, compiled, lastSet, lastCall, evicted, parts>>

\* mu.RLock(): blocks while a writer holds the mutex.
RLock(t) ==
    /\ At(t) = "rlock"
    /\ LET c == Op(t).cache IN
         /\ lk.mu[c].writer = "none"
         /\ lk' = [lk EXCEPT !.mu[c].readers = @ \cup {t},
                             !.op = Advance(t, Tail(Op(t).todo))]
    /\ UNCHANGED <<now, conf, modCache, respCache, nextMod, closedMods, served,
                   g, h, compiled, lastSet, lastCall, evicted, parts>>

\* mod, ok := m.cache[wasmPath]   /   cr, ok := r.cache[key]
Read(t) ==
    /\ At(t) = "read"
    /\ LET c == Op(t).cache
           k == Op(t).key
           ok == k \in DOMAIN MapOf(c)
       IN lk' = [lk EXCEPT
                   !.used = IF ok /\ c = "mod" THEN Touch(@, k) ELSE @,
                   !.op = [Advance(t, Tail(Op(t).todo)) EXCEPT
                             ![t].found = ok,
                             ![t].mod = IF ok /\ c = "mod" THEN modCache[k]
                                        ELSE NoModule,
                             ![t].data = IF ok /\ c = "resp"
                                         THEN respCache[k].data ELSE "",
                             ![t].expiresAt = IF ok /\ c = "resp"
                                              THEN respCache[k].expiresAt
                                              ELSE 0]]
    /\ UNCHANGED <<now, conf, modCache, respCache, nextMod, closedMods, served,
                   g, h, compiled, lastSet, lastCall, evicted, parts>>

\* mu.RUnlock(), then what Get does next: ModuleCache.Get goes on to compile
\* after a miss and returns the module after a hit; ResponseCache.Get tests
\* the expiry and returns.
RUnlock(t) ==
    /\ At(t) = "runlock"
    /\ LET c == Op(t).cache
           o == Op(t)
       IN lk' = [lk EXCEPT
                   !.mu[c].readers = @ \ {t},
                   !.op = Advance(t, AfterLookup(c, o.found))]
    /\ UNCHANGED <<now, conf, modCache, respCache, nextMod, closedMods, served,
                   g, h, compiled, lastSet, lastCall, evicted, parts>>

\* os.ReadFile and rt.CompileModule; an error returns from Get (releasing
\* whatever the goroutine holds).
Compile(t) ==
    /\ At(t) = "compile"
    /\ \E bytes \in FileStates :
         IF bytes = "valid"
         THEN /\ lk' = [lk EXCEPT !.op = [Advance(t, Tail(Op(t).todo))
                                            EXCEPT ![t].mod = nextMod]]
              /\ nextMod' = nextMod + 1
         ELSE /\ lk' = [lk EXCEPT
                          !.op = Advance(t, <<>>),
                          !.mu["mod"].writer = IF @ = t THEN "none" ELSE @]
              /\ UNCHANGED nextMod
    /\ UNCHANGED <<now, conf, modCache, respCache, closedMods, served,
                   g, h, compiled, lastSet, lastCall, evicted, parts>>

\* mu.Lock(): blocks while any reader or writer holds the mutex.
Lock(t) ==
    /\ At(t) = "lock"
    /\ LET c == Op(t).cache IN
         /\ lk.mu[c] = Unlocked
         /\ lk' = [lk EXCEPT !.mu[c].writer = t,
                             !.op = Advance(t, Tail(Op(t).todo))]
    /\ UNCHANGED <<now, conf, modCache, respCache, nextMod, closedMods, served,
                   g, h, compiled, lastSet, lastCall, evicted, parts>>

\* if len(cache) >= size { delete one }
Evict(t) ==
    /\ At(t) = "evict"
    /\ IF Op(t).cache = "mod"
       THEN modCache' \in MakeRoom(modCache, cacheSize) /\ UNCHANGED respCache
       ELSE respCache' \in MakeRoom(respCache, cacheSize) /\ UNCHANGED modCache
    /\ lk' = [lk EXCEPT !.op = Advance(t, Tail(Op(t).todo)),
                        !.used = Drop(@, DOMAIN modCache \ DOMAIN modCache')]
    /\ UNCHANGED <<now, conf, nextMod, closedMods, served,
                   g, h, compiled, lastSet, lastCall, evicted, parts>>

\* m.cache[wasmPath] = mod   /   r.cache[key] = cachedResponse{data,
\* time.Now().Add(ttl)}
Store(t) ==
    /\ At(t) = "store"
    /\ LET o == Op(t) IN
         IF o.cache = "mod"
         THEN /\ modCache' = MapPut(modCache, o.key, o.mod)
              /\ UNCHANGED respCache
         ELSE /\ respCache' = MapPut(respCache, o.key,
                                     [data |-> o.data, expiresAt |-> now + o.ttl])
              /\ UNCHANGED modCache
    /\ lk' = [lk EXCEPT !.op = Advance(t, Tail(Op(t).todo)),
                        !.used = IF Op(t).cache = "mod" THEN Touch(@, Op(t).key)
                                 ELSE @]
    /\ UNCHANGED <<now, conf, nextMod, closedMods, served,
                   g, h, compiled, lastSet, lastCall, evicted, parts>>

\* mu.Unlock() (deferred), and the method returns.
Unlock(t) ==
    /\ At(t) = "unlock"
    /\ lk' = [lk EXCEPT !.mu[Op(t).cache].writer = "none",
                        !.op = Advance(t, Tail(Op(t).todo))]
    /\ UNCHANGED <<now, conf, modCache, respCache, nextMod, closedMods, served,
                   g, h, compiled, lastSet, lastCall, evicted, parts>>

CacheNext ==
    \/ \E t \in Threads : CallGet(t)
    \/ \E t \in Threads : CallSet(t)
    \/ \E t \in Threads : RLock(t)
    \/ \E t \in Threads : Read(t)
    \/ \E t \in Threads : RUnlock(t)
    \/ \E t \in Threads : Compile(t)
    \/ \E t \in Threads : Lock(t)
    \/ \E t \in Threads : Evict(t)
    \/ \E t \in Threads : Store(t)
    \/ \E t \in Threads : Unlock(t)

CacheSpec == Init /\ [][CacheNext]_vars

(***************************************************************************)
(* One request to a route that misses the response cache, followed step    *)
(* by step from the query string to the end of runWASM: the params of the  *)
(* payload, the seed, the module configuration, and the engine's two calls *)
(* (InstantiateModule, which runs the start functions of the module        *)
(* configuration, "_start" for wazero.NewModuleConfig(), and the Call of   *)
(* "_start" that runWASM makes itself).  Instantiate and StartCall above   *)
(* are these steps seen from ServeHTTP.                                    *)
(***************************************************************************)
MaxPairs == 2        \* key=value segments in one query string

Keys == {"a", "b"}
Values == {"1", "2"}

\* One segment of the raw query, between two "&": key=value, or a segment
\* with a ";" in it, which url.ParseQuery rejects.
Segment(k, v, semi) == [key |-> k, value |-> v, semicolon |-> semi]
Segments ==
    {Segment(k, v, FALSE) : k \in Keys, v \in Values} \cup {Segment("a", "1", TRUE)}

Queries == UNION {[1..n -> Segments] : n \in 0..MaxPairs}

\* Route.Filesystem as the config file gives it: both, one or none of the
\* guest mount point and the host directory.
Filesystems == [Mount : {"", "/data"}, Path : {"", "./data"}]

\* r.URL.Query(): url.ParseQuery over the segments in order, the error
\* dropped; a rejected segment adds nothing, any other appends its value to
\* the values of its key.
RECURSIVE ParseQuery(_, _)
ParseQuery(query, m) ==
    IF query = <<>> THEN m
    ELSE LET s == Head(query)
         IN  IF s.semicolon THEN ParseQuery(Tail(query), m)
             ELSE ParseQuery(Tail(query),
                             MapPut(m, s.key,
                                    IF s.key \in DOMAIN m
                                    THEN Append(m[s.key], s.value)
                                    ELSE <<s.value>>))
\* The last value of the key.
ParamOfLast(vs) == vs[Len(vs)]

\* The key's entry of params, taken from the values of the key.
ParamOf(vs) == vs[1]

\* The loop of ServeHTTP over r.URL.Query() that fills params.
Params(values) ==
    [k \in {k \in DOMAIN values : Len(values[k]) > 0} |-> ParamOf(values[k])]

\* The result of readRandomSeed as ServeHTTP keeps it (seed, _): the n-th
\* value read from rand.Reader, or 0 when the read fails.
NoSeed == [value |-> 0, crypto |-> FALSE, draw |-> 0]
ReadRandomSeed(ok, n) ==
    IF ok THEN [value |-> n, crypto |-> TRUE, draw |-> n] ELSE NoSeed

\* The filesystem configuration of the module configuration: whether
\* WithFSConfig is called, and the directory mounts it is called with.
NoFSConfig == [set |-> FALSE, mounts |-> {}]
\* A directory mount for any route that names a guest mount point.
FSConfigAnyMount(fs) ==
    IF fs.Mount # ""
    THEN [set |-> TRUE, mounts |-> {[host |-> fs.Path, guest |-> fs.Mount]}]
    ELSE NoFSConfig

FSConfig(fs) ==
    IF fs.Mount # "" /\ fs.Path # ""
    THEN [set |-> TRUE, mounts |-> {[host |-> fs.Path, guest |-> fs.Mount]}]
    ELSE NoFSConfig

\* How a run of _start ends.
StartOutcomes == {"return", "exit0", "exit1", "trap"}

\* The module stays open after a run of _start only when _start returns;
\* proc_exit and a trap close it.
OpenAfter(outcome) == outcome = "return"

\* The error of a run of _start as the engine reports it.
StartError(outcome) ==
    CASE outcome = "return" -> NoErr
      [] outcome = "exit0"  -> "exit0"
      [] outcome = "exit1"  -> "exit1"
      [] outcome = "trap"   -> "trap"

\* The error InstantiateModule returns after its start function has run:
\* exit code 0 is not an error.
InstantiateError(outcome) ==
    IF outcome = "exit0" THEN NoErr ELSE StartError(outcome)

\* The request being followed: its query and its route's filesystem, what
\* ServeHTTP has built from them, and what the engine has done for it.
\* payloads is the history of the seeds of the payloads that a run of _start
\* had on its stdin.
RunStarted(r, query, fs) ==
    [pc |-> "params", draws |-> r.draws, used |-> r.used,
     query |-> query, fs |-> fs, params |-> EmptyMap, seed |-> NoSeed,
     config |-> NoFSConfig, instances |-> 0, entries |-> 0, open |-> FALSE,
     err |-> NoErr, status |-> 0]

\* runWASM has returned err: 500 on an error, else the output with 200.
RunReturned(r, err) ==
    [r EXCEPT !.pc = "done", !.err = err, !.open = FALSE,
              !.status = IF RunFailed(err) THEN 500 ELSE 200]

RunFrame ==
    UNCHANGED <<now, conf, lk, lastCall, evicted, reload, boot, stats, modCache,
                respCache, nextMod, closedMods, g, h, compiled, lastSet>>

\* ServeHTTP finds the route of the request and misses the response cache
\* or has none to ask.
RunBegin ==
    /\ run.pc = "idle"
    /\ served < MaxRequests
    /\ \E query \in Queries, fs \in Filesystems :
         run' = RunStarted(run, query, fs)
    /\ served' = served + 1
    /\ RunFrame

\* params from the query.
RunParams ==
    /\ run.pc = "params"
    /\ run' = [run EXCEPT !.pc = "seed",
                          !.params = Params(ParseQuery(run.query, EmptyMap))]
    /\ UNCHANGED served
    /\ RunFrame

\* seed, _ := readRandomSeed(); the read of rand.Reader succeeds or fails.
RunSeed ==
    /\ run.pc = "seed"
    /\ \E ok \in BOOLEAN :
         LET n == IF ok THEN run.draws + 1 ELSE run.draws
         IN  run' = [run EXCEPT !.pc = "modGet", !.draws = n,
                                !.seed = ReadRandomSeed(ok, n)]
    /\ UNCHANGED served
    /\ RunFrame

\* runWASM: ModuleCache.Get returns the compiled module or an error.
RunModGet ==
    /\ run.pc = "modGet"
    /\ \E ok \in BOOLEAN :
         run' = IF ok THEN [run EXCEPT !.pc = "config"]
                ELSE RunReturned(run, "compile")
    /\ UNCHANGED served
    /\ RunFrame

\* The module configuration: stdin, stdout and, for a route with a mount,
\* the filesystem configuration.
RunConfigure ==
    /\ run.pc = "config"
    /\ run' = [run EXCEPT !.pc = "instantiate", !.config = FSConfig(run.fs)]
    /\ UNCHANGED served
    /\ RunFrame

\* InstantiateModule: it fails before any code of the module runs, or the
\* instance is made and the engine runs _start on it, with the payload on
\* stdin.
RunInstantiate ==
    /\ run.pc = "instantiate"
    /\ \/ run' = RunReturned(run, "instantiate")
       \/ \E outcome \in StartOutcomes :
            LET r == [run EXCEPT !.instances = @ + 1, !.entries = @ + 1,
                                 !.used = Append(@, run.seed),
                                 !.open = OpenAfter(outcome)]
            IN  run' = IF RunFailed(InstantiateError(outcome))
                       THEN RunReturned(r, InstantiateError(outcome))
                       ELSE [r EXCEPT !.pc = "call"]
    /\ UNCHANGED served
    /\ RunFrame

\* instance.ExportedFunction("_start").Call: on an open module _start runs
\* again; on a module closed by exit(0) the call returns that exit code
\* without running anything.  The deferred Close follows.
RunCall ==
    /\ run.pc = "call"
    /\ IF run.open
       THEN \E outcome \in StartOutcomes :
              run' = RunReturned([run EXCEPT !.entries = @ + 1],
                                 RunResult(StartError(outcome)))
       ELSE run' = RunReturned(run, RunResult("exit0"))
    /\ UNCHANGED served
    /\ RunFrame

\* The response is written; the server is ready for the next request.
RunEnd ==
    /\ run.pc = "done"
    /\ run' = [pc |-> "idle", draws |-> run.draws, used |-> run.used]
    /\ UNCHANGED served
    /\ RunFrame

RunNext ==
    \/ RunBegin
    \/ RunParams
    \/ RunSeed
    \/ RunModGet
    \/ RunConfigure
    \/ RunInstantiate
    \/ RunCall
    \/ RunEnd

RunSpec == Init /\ [][RunNext]_vars

(***************************************************************************)
(* The route table under reload, as the server with the watched config     *)
(* file has it (src/config.go, WatchConfigFile): one watcher goroutine     *)
(* that parses the changed file into a new Config and hands it to          *)
(* Config.Update, and the request goroutines, which call                   *)
(* Config.GetRoutes.  Maps are objects on the heap, named by a number;     *)
(* every mutex operation and every map write is a step of its own.         *)
(***************************************************************************)
Watcher == "watcher"

\* The lines of a config file that ParseConfig acts on.
Listen(port) == [kind |-> "Listen", port |-> port]
RouteLine(path, wasm) == [kind |-> "Route", path |-> path, wasm |-> wasm]

\* A config file as ioutil.ReadFile finds it: unreadable, or its lines.
File(ok, lines) == [ok |-> ok, lines |-> lines]

Readable ==
    { File(TRUE, <<Listen("8080"), RouteLine("/a", "a.wasm"), RouteLine("/b", "b.wasm")>>),
      File(TRUE, <<Listen("9090"), RouteLine("/b", "b2.wasm"), RouteLine("/c", "c.wasm")>>) }

Unreadable == File(FALSE, <<>>)

\* NewConfig(): no port, the routes map m (empty), a free mutex; with m = 0,
\* the nil *Config of a watcher that has made none yet.
NewConfig(m) == [Port |-> "", Routes |-> m, mu |-> Unlocked]

\* The Config the watcher parses the changed file into, of the live one and
\* the one NewConfig() has just made.
ReloadTargetLive == "live"

ReloadTarget == "new"

\* A map that is not on the heap yet.
NewMap(heap) == CHOOSE m \in 1..(Cardinality(DOMAIN heap) + 1) : m \notin DOMAIN heap

\* One turn of ParseConfig's loop over the lines, on the Config c whose
\* routes map is on the heap: the port and the heap after it.
ParseLine(c, heap, line) ==
    IF line.kind = "Listen"
    THEN [Port |-> line.port, heap |-> heap]
    ELSE [Port |-> c.Port,
          heap |-> [heap EXCEPT ![c.Routes] =
                      MapPut(@, line.path, [Path |-> line.path, WasmFile |-> line.wasm])]]

\* A goroutine that is not inside GetRoutes, and the map its last call
\* returned (0: none).
NoRead == [pc |-> "idle", copy |-> 0, src |-> 0, seen |-> Unreadable]

\* The watcher between two events.
NoWatch == [pc |-> "idle", file |-> Unreadable, lines |-> <<>>]

\* The maps a goroutine can still reach.
Reachable(c, r) ==
    {c.live.Routes, c.new.Routes} \cup {r[t].copy : t \in Threads}
                                  \cup {r[t].src : t \in Threads}

Collect(heap, c, r) == [m \in DOMAIN heap \cap Reachable(c, r) |-> heap[m]]

ReloadFrame ==
    UNCHANGED <<now, conf, lk, lastCall, evicted, run, boot, stats, modCache,
                respCache, nextMod, closedMods, served, g, h, compiled, lastSet>>

\* main: the Config is made and parsed from the config file, and the watcher
\* is started.  cur is the history of the file the live table came from.
RECURSIVE Parsed(_, _, _)
Parsed(c, heap, lines) ==
    IF lines = <<>> THEN [Port |-> c.Port, heap |-> heap]
    ELSE LET p == ParseLine(c, heap, Head(lines))
         IN  Parsed([c EXCEPT !.Port = p.Port], p.heap, Tail(lines))

WatchStart ==
    /\ ~reload.on
    /\ \E file \in Readable :
         LET p == Parsed(NewConfig(1), [m \in {1} |-> EmptyMap], file.lines)
         IN  reload' = [on |-> TRUE, ops |-> 0, heap |-> p.heap,
                        c |-> [live |-> [NewConfig(1) EXCEPT !.Port = p.Port],
                               new |-> NewConfig(0)],
                        cur |-> file, w |-> NoWatch,
                        r |-> [t \in Threads |-> NoRead]]
    /\ ReloadFrame

\* A Write event arrives: newConfig := NewConfig().
WatchEvent ==
    /\ reload.on /\ reload.w.pc = "idle" /\ reload.ops < MaxOps
    /\ \E file \in Readable \cup {Unreadable} :
         LET m == NewMap(reload.heap)
         IN  reload' = [reload EXCEPT
                          !.ops = @ + 1,
                          !.heap = MapPut(@, m, EmptyMap),
                          !.c.new = NewConfig(m),
                          !.w = [pc |-> "lock", file |-> file, lines |-> <<>>]]
    /\ ReloadFrame

\* ParseConfig: c.mu.Lock() of the Config it is called on.
ParseLock ==
    /\ reload.on /\ reload.w.pc = "lock"
    /\ reload.c[ReloadTarget].mu = Unlocked
    /\ reload' = [reload EXCEPT !.c[ReloadTarget].mu.writer = Watcher,
                                !.w.pc = "read"]
    /\ ReloadFrame

\* ioutil.ReadFile: on an error ParseConfig returns it (Unlock deferred) and
\* the watcher logs it; else the lines are split.
ParseRead ==
    /\ reload.on /\ reload.w.pc = "read"
    /\ reload' = IF reload.w.file.ok
                 THEN [reload EXCEPT !.w.pc = "line",
                                     !.w.lines = reload.w.file.lines]
                 ELSE [reload EXCEPT !.w = NoWatch,
                                     !.c[ReloadTarget].mu.writer = "none"]
    /\ ReloadFrame

\* One line of the file; after the last, ParseConfig returns nil (Unlock
\* deferred) and the watcher goes on to config.Update(newConfig).
ParseStep ==
    /\ reload.on /\ reload.w.pc = "line"
    /\ reload' =
         IF reload.w.lines = <<>>
         THEN [reload EXCEPT !.w.pc = "update",
                             !.c[ReloadTarget].mu.writer = "none"]
         ELSE LET p == ParseLine(reload.c[ReloadTarget], reload.heap,
                                 Head(reload.w.lines))
              IN  [reload EXCEPT !.w.lines = Tail(@),
                                 !.c[ReloadTarget].Port = p.Port,
                                 !.heap = p.heap]
    /\ ReloadFrame

\* Update: c.mu.Lock() of the live Config.
UpdateLock ==
    /\ reload.on /\ reload.w.pc = "update"
    /\ reload.c.live.mu = Unlocked
    /\ reload' = [reload EXCEPT !.c.live.mu.writer = Watcher, !.w.pc = "port"]
    /\ ReloadFrame

\* c.Port = newConfig.Port
UpdatePort ==
    /\ reload.on /\ reload.w.pc = "port"
    /\ reload' = [reload EXCEPT !.c.live.Port = reload.c.new.Port,
                                !.w.pc = "routes"]
    /\ ReloadFrame

\* c.Routes = newConfig.Routes: the live Config now has the new Config's
\* map; the map it had is garbage once no goroutine holds it.
UpdateRoutes ==
    /\ reload.on /\ reload.w.pc = "routes"
    /\ LET c == [reload.c EXCEPT !.live.Routes = reload.c.new.Routes]
       IN  reload' = [reload EXCEPT !.c = c, !.w.pc = "unlock",
                                    !.cur = reload.w.file,
                                    !.heap = Collect(@, c, reload.r)]
    /\ ReloadFrame

\* The deferred c.mu.Unlock(); the watcher waits for the next event.
UpdateUnlock ==
    /\ reload.on /\ reload.w.pc = "unlock"
    /\ reload' = [reload EXCEPT !.c.live.mu.writer = "none", !.w = NoWatch]
    /\ ReloadFrame

\* A request goroutine calls s.config.GetRoutes(); the map of its previous
\* call is garbage by now.
GetRoutesCall(t) ==
    /\ reload.on /\ reload.r[t].pc = "idle" /\ reload.ops < MaxOps
    /\ LET r == [reload.r EXCEPT ![t] = [NoRead EXCEPT !.pc = "rlock"]]
       IN  reload' = [reload EXCEPT !.ops = @ + 1, !.r = r,
                                    !.heap = Collect(@, reload.c, r)]
    /\ ReloadFrame

\* c.mu.RLock(): blocks while a writer holds the mutex.  seen is the
\* history of the file the live table came from at this moment.
GetRoutesRLock(t) ==
    /\ reload.on /\ reload.r[t].pc = "rlock"
    /\ reload.c.live.mu.writer = "none"
    /\ reload' = [reload EXCEPT !.c.live.mu.readers = @ \cup {t},
                                !.r[t].pc = "make",
                                !.r[t].seen = reload.cur]
    /\ ReloadFrame

\* routesCopy := make(map[string]Route); range c.Routes reads the field.
GetRoutesMake(t) ==
    /\ reload.on /\ reload.r[t].pc = "make"
    /\ LET m == NewMap(reload.heap)
       IN  reload' = [reload EXCEPT !.heap = MapPut(@, m, EmptyMap),
                                    !.r[t].copy = m,
                                    !.r[t].src = reload.c.live.Routes,
                                    !.r[t].pc = "copy"]
    /\ ReloadFrame

\* routesCopy[k] = v for one more entry of the map, in any order; after the
\* last, the loop ends.
GetRoutesCopy(t) ==
    /\ reload.on /\ reload.r[t].pc = "copy"
    /\ LET from == reload.heap[reload.r[t].src]
           to == reload.r[t].copy
           left == DOMAIN from \ DOMAIN reload.heap[to]
       IN  IF left = {}
           THEN reload' = [reload EXCEPT !.r[t].pc = "runlock", !.r[t].src = 0]
           ELSE \E k \in left :
                  reload' = [reload EXCEPT !.heap[to] = MapPut(@, k, from[k])]
    /\ ReloadFrame

\* The deferred c.mu.RUnlock(); GetRoutes returns routesCopy.
GetRoutesReturn(t) ==
    /\ reload.on /\ reload.r[t].pc = "runlock"
    /\ reload' = [reload EXCEPT !.c.live.mu.readers = @ \ {t},
                                !.r[t].pc = "idle"]
    /\ ReloadFrame

ReloadNext ==
    \/ WatchStart
    \/ WatchEvent
    \/ ParseLock
    \/ ParseRead
    \/ ParseStep
    \/ UpdateLock
    \/ UpdatePort
    \/ UpdateRoutes
    \/ UpdateUnlock
    \/ \E t \in Threads : GetRoutesCall(t)
    \/ \E t \in Threads : GetRoutesRLock(t)
    \/ \E t \in Threads : GetRoutesMake(t)
    \/ \E t \in Threads : GetRoutesCopy(t)
    \/ \E t \in Threads : GetRoutesReturn(t)

ReloadSpec == Init /\ [][ReloadNext]_vars

(***************************************************************************)
(* main from the config file to the handler a request gets: LoadConfig on  *)
(* any config file, NewServer, and the switch and route lookup at the head *)
(* of ServeHTTP for any path.                                              *)
(***************************************************************************)

\* if cfg.Port == "" { cfg.Port = "8080" }
DefaultPort == "8080"

PortOf(file) == IF file.Port = "" THEN DefaultPort ELSE file.Port

\* The route tables of the config files: the two routes of config.json, and
\* with them routes at the paths of the built-in endpoints.
BootRoutes ==
    { Routes,
      [p \in {"/fibonacci", "/health", "/", "/stats"} |-> Route("fibonacci.wasm", FALSE, 0)] }

\* A JSON flag of the config file: absent (it unmarshals as false), or
\* spelled out as true or false.
Flags == {[given |-> FALSE, value |-> FALSE], [given |-> TRUE, value |-> FALSE],
          [given |-> TRUE, value |-> TRUE]}

\* The config files json.Unmarshal accepts: port absent or given, cache_ttl
\* and cache_size negative, absent (0) or given, the two flags, the routes.
BootFiles ==
    { [Port |-> port, CacheTTL |-> ttl, CacheSize |-> size,
       IndexPage |-> ip.value, Monitoring |-> mon.value, Routes |-> routes,
       Keys |-> (IF ip.given THEN {"index_page"} ELSE {})
                  \cup (IF mon.given THEN {"monitoring"} ELSE {})] :
        port \in {"", "9090"}, ttl \in {-1, 0, 2}, size \in {-1, 0, 1},
        ip \in Flags, mon \in Flags, routes \in BootRoutes }

\* The paths of the requests.
BootPaths == {"/health", "/", "/monitoring", "/stats", "/fibonacci", "/missing"}

\* The handler the switch gives a built-in endpoint.
BuiltInHandler(path) ==
    CASE path = "/health" -> "health"
      [] path = "/"       -> "index"
      [] OTHER            -> "monitoring"

\* The head of ServeHTTP: the built-in endpoints, then the route lookup.
Handler(path, c) ==
    IF BuiltIn(path, c) THEN BuiltInHandler(path)
    ELSE IF path \in DOMAIN c.Routes THEN "route" ELSE "notFound"

BootFrame ==
    UNCHANGED <<now, conf, lk, lastCall, evicted, run, reload, stats, modCache,
                respCache, nextMod, closedMods, served, g, h, compiled, lastSet>>

\* cfg, err := LoadConfig("config.json"): the file cannot be read or parsed
\* and main ends in log.Fatalf, or LoadConfig returns the Config.
BootLoad ==
    /\ boot.pc = "off"
    /\ \/ boot' = [pc |-> "fatal"]
       \/ \E file \in BootFiles :
            boot' = [pc |-> "loaded", file |-> file, port |-> PortOf(file),
                     cfg |-> LoadConfig(file)]
    /\ BootFrame

\* server := NewServer(cfg): both caches are made with cfg.CacheSize; the
\* server listens on cfg.Port.
BootServer ==
    /\ boot.pc = "loaded"
    /\ boot' = [pc |-> "serving", file |-> boot.file, port |-> boot.port,
                cfg |-> boot.cfg, modSize |-> boot.cfg.CacheSize,
                respSize |-> boot.cfg.CacheSize, path |-> "", handler |-> "none"]
    /\ BootFrame

\* A request arrives: the handler that answers it.
BootRequest ==
    /\ boot.pc = "serving"
    /\ \E path \in BootPaths :
         boot' = [boot EXCEPT !.path = path, !.handler = Handler(path, boot.cfg)]
    /\ BootFrame

BootNext ==
    \/ BootLoad
    \/ BootServer
    \/ BootRequest

BootSpec == Init /\ [][BootNext]_vars

(***************************************************************************)
(* ServerStats under concurrent requests: every request ends in the        *)
(* deferred IncrementRequest of ServeHTTP, the monitoring endpoints call   *)
(* GetStats before that.  Every mutex operation and every assignment to a  *)
(* counter is a step of its own.                                           *)
(***************************************************************************)

\* The paths of the requests: a built-in endpoint, the monitoring endpoint,
\* a route, an unknown path.
StatsPaths == {"/health", "/monitoring", "/fibonacci", "/missing"}

\* The values success can have when ServeHTTP returns: false after
\* http.NotFound and after a module error.
Successes(path) ==
    CASE path = "/missing"   -> {FALSE}
      [] path = "/fibonacci" -> {TRUE, FALSE}
      [] OTHER               -> {TRUE}

\* IncrementRequest without the mutex.
IncrementStepsUnlocked == <<"total", "outcome", "route">>

\* The steps of IncrementRequest: Lock, the three counters, Unlock (deferred).
IncrementSteps == <<"lock", "total", "outcome", "route", "unlock">>

\* The steps of GetStats: RLock, the copy of RouteStats, the reads of the
\* counters for the struct it returns, RUnlock (deferred).
GetStatsSteps == <<"rlock", "routes", "counters", "runlock">>

\* The steps of a request from its handler on: the monitoring handler calls
\* GetStats; every request ends with the deferred IncrementRequest.
RequestSteps(path) ==
    (IF path = "/monitoring" THEN GetStatsSteps ELSE <<>>) \o IncrementSteps

\* The counters of a new ServerStats, and of one returned by GetStats.
NoCounts == [Total |-> 0, Success |-> 0, Error |-> 0, RouteStats |-> EmptyMap]

\* A goroutine that serves no request.
NoRequest ==
    [todo |-> <<>>, path |-> "", success |-> FALSE, got |-> FALSE, snap |-> NoCounts]

\* m[k]++ on a Go map: a missing key counts from 0.
Incremented(m, k) == MapPut(m, k, IF k \in DOMAIN m THEN m[k] + 1 ELSE 1)

StatsAt(t) == IF stats.r[t].todo = <<>> THEN "idle" ELSE Head(stats.r[t].todo)

StatsFrame ==
    UNCHANGED <<now, conf, lk, lastCall, evicted, run, reload, boot, modCache,
                respCache, nextMod, closedMods, served, g, h, compiled, lastSet>>

\* NewServer: stats: NewServerStats().
StatsStart ==
    /\ ~stats.on
    /\ stats' = [on |-> TRUE, mu |-> Unlocked, c |-> NoCounts, begun |-> 0,
                 finished |-> 0, r |-> [t \in Threads |-> NoRequest]]
    /\ StatsFrame

\* ServeHTTP is called and runs its handler up to the use of the stats.
\* begun and finished are the history of the requests.
StatsRequest(t) ==
    /\ stats.on /\ StatsAt(t) = "idle" /\ stats.begun < MaxRequests
    /\ \E path \in StatsPaths : \E success \in Successes(path) :
         stats' = [stats EXCEPT
                     !.begun = @ + 1,
                     !.r[t] = [NoRequest EXCEPT !.todo = RequestSteps(path),
                                                !.path = path,
                                                !.success = success]]
    /\ StatsFrame

\* s.mu.RLock(): blocks while a writer holds the mutex.
StatsRLock(t) ==
    /\ stats.on /\ StatsAt(t) = "rlock"
    /\ stats.mu.writer = "none"
    /\ stats' = [stats EXCEPT !.mu.readers = @ \cup {t}, !.r[t].todo = Tail(@)]
    /\ StatsFrame

\* routesCopy[k] = v for every entry of s.RouteStats.
StatsCopyRoutes(t) ==
    /\ stats.on /\ StatsAt(t) = "routes"
    /\ stats' = [stats EXCEPT !.r[t].snap.RouteStats = stats.c.RouteStats,
                              !.r[t].todo = Tail(@)]
    /\ StatsFrame

\* return ServerStats{TotalRequests: s.TotalRequests, ...}
StatsCopyCounters(t) ==
    /\ stats.on /\ StatsAt(t) = "counters"
    /\ stats' = [stats EXCEPT !.r[t].snap.Total = stats.c.Total,
                              !.r[t].snap.Success = stats.c.Success,
                              !.r[t].snap.Error = stats.c.Error,
                              !.r[t].todo = Tail(@)]
    /\ StatsFrame

\* The deferred s.mu.RUnlock(); GetStats returns the copy.
StatsRUnlock(t) ==
    /\ stats.on /\ StatsAt(t) = "runlock"
    /\ stats' = [stats EXCEPT !.mu.readers = @ \ {t}, !.r[t].got = TRUE,
                              !.r[t].todo = Tail(@)]
    /\ StatsFrame

\* s.mu.Lock(): blocks while any reader or writer holds the mutex.
StatsLock(t) ==
    /\ stats.on /\ StatsAt(t) = "lock"
    /\ stats.mu = Unlocked
    /\ stats' = [stats EXCEPT !.mu.writer = t, !.r[t].todo = Tail(@)]
    /\ StatsFrame

\* s.TotalRequests++
StatsTotal(t) ==
    /\ stats.on /\ StatsAt(t) = "total"
    /\ stats' = [stats EXCEPT !.c.Total = @ + 1, !.r[t].todo = Tail(@)]
    /\ StatsFrame

\* if success { s.SuccessRequests++ } else { s.ErrorRequests++ }
StatsOutcome(t) ==
    /\ stats.on /\ StatsAt(t) = "outcome"
    /\ stats' = IF stats.r[t].success
                THEN [stats EXCEPT !.c.Success = @ + 1, !.r[t].todo = Tail(@)]
                ELSE [stats EXCEPT !.c.Error = @ + 1, !.r[t].todo = Tail(@)]
    /\ StatsFrame

\* s.RouteStats[route]++; without the mutex IncrementRequest returns here.
StatsRoute(t) ==
    /\ stats.on /\ StatsAt(t) = "route"
    /\ stats' = [stats EXCEPT
                   !.c.RouteStats = Incremented(@, stats.r[t].path),
                   !.r[t].todo = Tail(@),
                   !.finished = IF Tail(stats.r[t].todo) = <<>> THEN @ + 1 ELSE @]
    /\ StatsFrame

\* The deferred s.mu.Unlock(); the request is finished.
StatsUnlock(t) ==
    /\ stats.on /\ StatsAt(t) = "unlock"
    /\ stats' = [stats EXCEPT !.mu.writer = "none", !.finished = @ + 1,
                              !.r[t].todo = Tail(@)]
    /\ StatsFrame

StatsNext ==
    \/ StatsStart
    \/ \E t \in Threads : StatsRequest(t)
    \/ \E t \in Threads : StatsRLock(t)
    \/ \E t \in Threads : StatsCopyRoutes(t)
    \/ \E t \in Threads : StatsCopyCounters(t)
    \/ \E t \in Threads : StatsRUnlock(t)
    \/ \E t \in Threads : StatsLock(t)
    \/ \E t \in Threads : StatsTotal(t)
    \/ \E t \in Threads : StatsOutcome(t)
    \/ \E t \in Threads : StatsRoute(t)
    \/ \E t \in Threads : StatsUnlock(t)

StatsSpec == Init /\ [][StatsNext]_vars

(***************************************************************************)
(* The claims.                                                             *)
(***************************************************************************)
Routed(t) == g[t].path \in DOMAIN cfg.Routes
Cacheable(t) == Routed(t) /\ cfg.Routes[g[t].path].Cache
WasmOf(t) == cfg.Routes[g[t].path].WASMFile

\* This request's ModuleCache.Get compiled its wasm file, and had begun
\* before any compile of that file had completed.
ColdCompile(t) == Routed(t) /\ h[t].cold /\ g[t].wasmBytes = "valid"

\* C1: of the requests for one wasm path whose ModuleCache.Get began before
\* any compile of that path had completed, at most one compiles it (the
\* others wait for that result).
C1_SingleFlightCompile ==
    \A t, u \in Threads :
        (t # u /\ ColdCompile(t) /\ ColdCompile(u)) => WasmOf(t) # WasmOf(u)

\* C2: ResponseCache.Get returns the bytes exactly when an entry is present
\* and the clock is strictly before its expires_at; at expires_at and later
\* it misses.
C2_StrictExpiry ==
    \A t \in Threads :
        h[t].get.returned =>
            (h[t].get.hit <=> (h[t].get.present /\ h[t].get.beforeExpiry))

\* C3: neither cache ever holds more than cache_size entries.
C3_CacheBounds ==
    /\ MapLen(modCache) <= cacheSize
    /\ MapLen(respCache) <= cacheSize

\* Both caches are full and the module cache has evicted a compiled module.
C3_Witness ==
    /\ MapLen(modCache) = cacheSize
    /\ MapLen(respCache) = cacheSize
    /\ compiled \ DOMAIN modCache # {}

\* C4: a request whose ResponseCache.Get hits is answered with exactly the
\* cached bytes (those of the latest Set of its key) and makes no
\* ModuleCache.Get, no instantiation, no _start call, no ResponseCache.Set.
C4_HitSkipsModule ==
    \A t \in Threads :
        h[t].get.hit =>
            /\ g[t].pc = "done"
            /\ g[t].resp = [status |-> 200, body |-> h[t].get.data]
            /\ h[t].get.setSeen /\ h[t].get.setData = h[t].get.data
            /\ h[t].modGet = 0 /\ h[t].inst = 0 /\ h[t].start = 0
            /\ h[t].rcSet = 0 /\ h[t].rcWrites = 0

\* A request has been served from the response cache.
C4_Witness ==
    \E t \in Threads : Cacheable(t) /\ h[t].get.hit /\ g[t].resp.status = 200

\* C5: a request to a route with cache = false never calls ResponseCache.Get
\* or Set and never writes the response-cache map; it always enters runWASM,
\* and a 200 answer comes from one instantiation and one _start call.
C5_NonCacheableBypassesCache ==
    \A t \in Threads :
        (Routed(t) /\ ~cfg.Routes[g[t].path].Cache) =>
            /\ h[t].rcGet = 0 /\ h[t].rcSet = 0 /\ h[t].rcWrites = 0
            /\ ~h[t].get.returned
            /\ g[t].pc = "done" => h[t].modGet = 1
            /\ g[t].resp.status = 200 => (h[t].inst = 1 /\ h[t].start = 1)

\* Two requests to the non-cacheable route have both been answered from a
\* module run.
C5_Witness ==
    \A t \in Threads :
        /\ Routed(t) /\ ~cfg.Routes[g[t].path].Cache
        /\ g[t].pc = "done" /\ g[t].resp.status = 200

\* C6: a request that ends in an error (module load, compile, instantiate,
\* trap, non-zero exit, cancellation) answers 500 and has neither called
\* ResponseCache.Set nor written (inserted into, evicted from) the map.
C6_FailuresNotCached ==
    \A t \in Threads :
        g[t].err # NoErr =>
            /\ g[t].pc = "done"
            /\ g[t].resp = InternalError
            /\ h[t].rcSet = 0 /\ h[t].rcWrites = 0

\* A request to a cacheable route has trapped after its _start ran, while the
\* other request has stored its response.
C6_Witness ==
    \E t, u \in Threads :
        /\ Cacheable(t) /\ g[t].err = "trap" /\ h[t].start = 1
        /\ h[u].rcSet = 1 /\ respCache # EmptyMap

\* C7: a failed read or compile leaves the module-cache map untouched by
\* that request, the map never holds an entry without a module, and a Get
\* that reads valid bytes, also after an earlier failure for the same path,
\* goes on with a compiled module.
C7_NoNegativeCaching ==
    /\ \A p \in DOMAIN modCache : modCache[p] # NoModule
    /\ \A t \in Threads :
         /\ g[t].err \in {"read", "compile"} =>
                (h[t].mcWrites = 0 /\ g[t].wasmBytes # "valid")
         /\ h[t].retry => h[t].mcWrites = (IF g[t].wasmBytes = "valid"
                                              /\ g[t].pc # "insert"
                                           THEN 1 ELSE 0)
         /\ g[t].pc \in {"insert", "instantiate", "call"} => g[t].mod # NoModule

\* After another request's compile of the same path had failed, a request
\* has read valid bytes, compiled them and put the module into the cache.
C7_Witness ==
    \E t \in Threads :
        /\ h[t].retry /\ g[t].wasmBytes = "valid" /\ h[t].mcWrites = 1
        /\ WasmOf(t) \in DOMAIN modCache
        /\ \E u \in Threads : g[u].err = "compile" /\ WasmOf(u) = WasmOf(t)

\* C8: a request has a live instance only while its _start call runs: none
\* before dispatch, none once runWASM has returned, whatever the outcome.
C8_NoInstanceLeak ==
    \A t \in Threads :
        g[t].instance = (IF g[t].pc = "call" THEN 1 ELSE 0)

\* runWASM has returned from a trapped _start call.
C8_Witness ==
    \E t \in Threads :
        g[t].pc = "done" /\ g[t].err = "trap" /\ h[t].inst = 1 /\ h[t].start = 1

\* C9: the bytes a ResponseCache.Get returns at time t are those of the most
\* recent Set of its key, and that Set has set_time + ttl > t.
C9_GetSeesLatestLiveSet ==
    \A t \in Threads :
        h[t].get.hit =>
            /\ h[t].get.setSeen
            /\ h[t].get.setData = h[t].get.data
            /\ h[t].get.setLive

\* C10: the compiled module a request got from ModuleCache.Get is not closed
\* before the request's instantiation and _start call are over, also when
\* the module cache no longer holds it.
C10_ModuleValidWhileInUse ==
    \A t \in Threads :
        g[t].pc \in {"insert", "instantiate", "call"} =>
            (g[t].mod # NoModule /\ g[t].mod \notin closedMods)

\* A request is running _start on a module whose path has been evicted from
\* the module cache in the meantime.
C10_Witness ==
    \E t \in Threads :
        /\ g[t].pc = "call"
        /\ WasmOf(t) \notin DOMAIN modCache

\* Some request in flight holds compiled module m (from ModuleCache.Get until
\* runWASM returns).
InUse(m) == \E t \in Threads : g[t].mod = m

\* C11: every compiled module that eviction took out of the module cache is,
\* once no request in flight uses it any more, eventually closed.
C11_EvictedEventuallyClosed ==
    \A m \in Modules :
        [] ((m \in evicted /\ ~InUse(m)) => <>(m \in closedMods))

\* The server was started from a config file with cache_ttl = 0 and ttl = 0
\* on every route.
ZeroTTLConfig ==
    /\ configFile.CacheTTL = 0
    /\ \A p \in DOMAIN cfg.Routes : cfg.Routes[p].TTL = 0

\* C13: started with cache_ttl = 0 and a cacheable route with ttl = 0, the
\* effective TTL every Set is called with is 0, the response cache stays
\* empty and no request is served from it.
C13_ZeroTTLNeverCaches ==
    ZeroTTLConfig =>
        /\ \A k \in DOMAIN lastSet : lastSet[k].ttl = 0
        /\ respCache = EmptyMap
        /\ \A t \in Threads : ~h[t].get.hit

\* C14: a 200 answer on a cacheable route that did not come from the cache
\* has been stored, and every stored entry expires at the time of its Set
\* plus T, where T is the route's ttl if that is positive and cache_ttl
\* otherwise, which is also what getTTL reports for the route.
C14_StoredWithEffectiveTTL ==
    /\ \A k \in DOMAIN respCache :
          /\ k \in DOMAIN lastSet
          /\ LET route == cfg.Routes[lastSet[k].by[1]]
                 T == IF route.TTL > 0 THEN route.TTL ELSE cfg.CacheTTL
             IN /\ respCache[k].expiresAt = lastSet[k].time + T
                /\ getTTL(route, cfg.CacheTTL) = T
    /\ (Cacheable(Client) /\ g[Client].pc = "done"
          /\ g[Client].resp.status = 200 /\ ~h[Client].get.hit) =>
             /\ h[Client].rcSet = 1
             /\ KeyOf(Client) \in DOMAIN respCache
             /\ respCache[KeyOf(Client)].data = g[Client].resp.body

\* With cache_ttl = 2 in force and no ttl on the route, a response stored at
\* time 1 expires at 3.
C14_Witness ==
    /\ cfg.CacheTTL = 2
    /\ \E k \in DOMAIN respCache :
          /\ cfg.Routes[lastSet[k].by[1]].TTL = 0
          /\ lastSet[k].time = 1
          /\ respCache[k].expiresAt = 3

\* C15: the response-cache key of a request is its path, "?" and its raw
\* query, verbatim ("/path?" for an empty query); a request hits only an
\* entry that a request with the same path and the same raw query stored, so
\* the first request with a given raw query always runs the module.
C15_KeyIsPathAndRawQuery ==
    /\ \A t \in Threads :
          Cacheable(t) =>
            /\ KeyOf(t) = g[t].path \o "?" \o g[t].query
            /\ g[t].query = "" => KeyOf(t) = "/fibonacci?"
            /\ h[t].get.hit => h[t].get.setBySame
            /\ (g[t].pc = "done" /\ h[t].rcSet = 1) =>
                   KeyOf(t) \in DOMAIN respCache
    /\ \A k \in DOMAIN respCache :
          k = lastSet[k].by[1] \o "?" \o lastSet[k].by[2]

\* After a request with query a=1&b=2 was stored, the request with query
\* b=2&a=1 has missed, run the module and been stored under its own key.
C15_Witness ==
    /\ {"/fibonacci?a=1&b=2", "/fibonacci?b=2&a=1"} \subseteq DOMAIN respCache
    /\ g[Client].query = "b=2&a=1"
    /\ h[Client].get.returned /\ ~h[Client].get.hit /\ h[Client].start = 1

\* C16: a request whose context was cancelled by the time its _start call
\* returned ends in an error: no live instance, no ResponseCache.Set, no
\* 200 answer.
C16_CancelledIsError ==
    (lastCall.made /\ lastCall.cancelled) =>
        /\ g[Client].instance = 0
        /\ g[Client].err # NoErr
        /\ g[Client].pc # "rcSet" /\ h[Client].rcSet = 0
        /\ g[Client].resp.status # 200

\* C17: a _start call that returns normally or ends with exit code 0 is a
\* success: the captured stdout is the 200 answer and, on a cacheable route,
\* is stored, also when it is empty; a call that ends with a non-zero exit
\* code is a failure.
C17_ExitZeroIsSuccess ==
    lastCall.made =>
        /\ lastCall.err \in {"nil", "exit0"} =>
              /\ g[Client].err = NoErr
              /\ g[Client].pc \in {"rcSet", "done"}
              /\ g[Client].pc = "rcSet" =>
                    (Cacheable(Client) /\ g[Client].buf = lastCall.out)
              /\ g[Client].pc = "done" =>
                    /\ g[Client].resp = [status |-> 200, body |-> lastCall.out]
                    /\ Cacheable(Client) =>
                          /\ h[Client].rcSet = 1
                          /\ KeyOf(Client) \in DOMAIN respCache
                          /\ respCache[KeyOf(Client)].data = lastCall.out
        /\ lastCall.err = "exit1" =>
              /\ g[Client].err # NoErr
              /\ g[Client].resp.status = 500
              /\ h[Client].rcSet = 0

\* A run on the cacheable route that wrote nothing and ended with exit(0)
\* has been answered 200 with an empty body, and the empty body is stored.
C17_Witness ==
    /\ lastCall.made /\ lastCall.err = "exit0" /\ lastCall.out = ""
    /\ Cacheable(Client) /\ g[Client].pc = "done"
    /\ g[Client].resp = [status |-> 200, body |-> ""]
    /\ KeyOf(Client) \in DOMAIN respCache
    /\ respCache[KeyOf(Client)].data = ""

\* C18: when _start traps, whatever it had written to stdout, the request
\* ends in an error and the answer is the fixed 500 text, with none of the
\* captured bytes.
C18_TrapReturnsNoOutput ==
    (lastCall.made /\ lastCall.err = "trap") =>
        /\ g[Client].err # NoErr
        /\ g[Client].pc = "done"
        /\ g[Client].resp.status = 500
        /\ g[Client].resp.body = "internal server error"
        /\ h[Client].rcSet = 0

\* A module has trapped after writing two bytes.
C18_Witness ==
    /\ lastCall.made /\ lastCall.err = "trap" /\ lastCall.out = "55"
    /\ g[Client].pc = "done" /\ g[Client].resp.status = 500

\* C12: a ResponseCache.Set called with ttl = 0 leaves the cache map as it
\* is: none of its steps inserts, replaces or evicts an entry.
C12_SetZeroTTLIsNoOp ==
    [][\A t \in Threads :
          (Op(t).cache = "resp" /\ Op(t).todo # <<>>
             /\ Head(Op(t).todo) \in {"evict", "store"}
             /\ Op(t).ttl = 0 /\ Op(t)' # Op(t))
          => respCache' = respCache]_vars

\* The goroutines that hold the mutex of cache c for reading (between RLock
\* and RUnlock) and those inside a mutation of its map (between Lock and
\* Unlock).
Looking(c) ==
    {t \in Threads : Op(t).cache = c /\ At(t) \in {"read", "runlock"}}

Mutating(c) ==
    {t \in Threads : Op(t).cache = c /\ At(t) \in {"evict", "store", "unlock"}}

\* C19: in both caches a map lookup is made holding the shared lock and a
\* map mutation (evict, insert, replace) holding the exclusive lock, so no
\* lookup overlaps a mutation, and so never sees the map between an eviction
\* and the insert it makes room for, and no two mutations overlap.
C19_MapAccessUnderLock ==
    \A c \in Caches :
        /\ \A t \in Looking(c) : t \in lk.mu[c].readers
        /\ \A t \in Mutating(c) : lk.mu[c].writer = t
        /\ Cardinality(Mutating(c)) <= 1
        /\ Mutating(c) # {} => Looking(c) = {}

\* Two lookups of the response cache overlap.
C19_Witness ==
    /\ Cardinality(Looking("resp")) = 2
    /\ respCache # EmptyMap

\* C20: a goroutine that is reading or compiling a wasm file inside
\* ModuleCache.Get holds the mutex in no mode, so a Get for another key that
\* is about to take the mutex, shared or exclusive, can take it.
C20_CompileBlocksNoOtherKey ==
    \A t \in Threads :
        At(t) = "compile" =>
            /\ t \notin lk.mu["mod"].readers
            /\ lk.mu["mod"].writer # t
            /\ \A u \in Threads \ {t} :
                  (Op(u).cache = "mod" /\ Op(u).key # Op(t).key) =>
                      /\ At(u) = "rlock" => lk.mu["mod"].writer = "none"
                      /\ At(u) = "lock" => lk.mu["mod"] = Unlocked

\* While one goroutine compiles a wasm file, another has looked up, compiled
\* and stored a different one and is about to unlock.
C20_Witness ==
    \E t, u \in Threads :
        /\ At(t) = "compile" /\ At(u) = "unlock"
        /\ Op(u).cache = "mod" /\ Op(u).key # Op(t).key
        /\ Op(u).key \in DOMAIN modCache


\* C21: the response cache is no single-flight barrier.  A request that
\* missed runs the module whatever other requests for its key are doing, its
\* Set answers 200 with its own output and leaves, under its key, exactly its
\* bytes with its expiry; so every entry of the cache is that of the latest
\* Set of its key (last writer wins).
C21_LastWriterWins ==
    [][ /\ \A t \in Threads :
             (g[t].pc = "rcSet" /\ g'[t].pc = "done") =>
                /\ g'[t].resp = [status |-> 200, body |-> g[t].buf]
                /\ g'[t].err = NoErr
                /\ KeyOf(t) \in DOMAIN respCache'
                /\ respCache'[KeyOf(t)].data = g[t].buf
        /\ \A k \in DOMAIN respCache' :
             /\ k \in DOMAIN lastSet'
             /\ respCache'[k] = [data |-> lastSet'[k].data,
                                 expiresAt |-> lastSet'[k].time + lastSet'[k].ttl]
      ]_vars

\* Two requests for the same key both missed on the cold cache, both ran the
\* module and stored, with different outputs; the cache holds the later one.
C21_Witness ==
    \E t, u \in Threads :
        /\ t # u /\ Cacheable(t) /\ KeyOf(t) = KeyOf(u)
        /\ g[t].pc = "done" /\ g[u].pc = "done"
        /\ ~h[t].get.present /\ ~h[u].get.present
        /\ h[t].start = 1 /\ h[u].start = 1 /\ h[t].rcSet = 1 /\ h[u].rcSet = 1
        /\ g[t].resp = [status |-> 200, body |-> ""]
        /\ g[u].resp = [status |-> 200, body |-> "55"]
        /\ KeyOf(t) \in DOMAIN respCache
        /\ respCache[KeyOf(t)].data = lastSet[KeyOf(t)].data

\* The segments of the followed request's query that url.ParseQuery accepts
\* with key k, by position.
Given(k) ==
    {i \in DOMAIN run.query : ~run.query[i].semicolon /\ run.query[i].key = k}

First(S) == CHOOSE i \in S : \A j \in S : i <= j

\* C22: an instance is made with exactly the route's mount as its filesystem:
\* a route that declares a mount (guest mount point and host directory) gets
\* that one directory mount and no other; a route without one gets a module
\* configuration on which no filesystem configuration was set at all.
C22_FilesystemIsTheMount ==
    run.pc \in {"instantiate", "call"} =>
        /\ (run.fs.Mount # "" /\ run.fs.Path # "") =>
              /\ run.config.set
              /\ run.config.mounts = {[host |-> run.fs.Path, guest |-> run.fs.Mount]}
        /\ (run.fs.Mount = "" \/ run.fs.Path = "") =>
              /\ ~run.config.set
              /\ run.config.mounts = {}

\* An instance of a route that mounts ./data at /data has run _start with
\* that single mount.
C22_Witness ==
    /\ run.pc = "call"
    /\ run.instances = 1
    /\ run.fs = [Mount |-> "/data", Path |-> "./data"]
    /\ run.config.mounts = {[host |-> "./data", guest |-> "/data"]}

\* C23: once params is built it has an entry for exactly the keys given in
\* the query, each entry is the first value given for its key, later values
\* of the key are dropped, and every entry is a string.
C23_FirstValueOfEachKey ==
    run.pc \notin {"idle", "params"} =>
        /\ DOMAIN run.params = {k \in Keys : Given(k) # {}}
        /\ \A k \in DOMAIN run.params :
              /\ run.params[k] = run.query[First(Given(k))].value
              /\ run.params[k] \in Values

\* The query a=1&a=2 has given params a = "1".
C23_Witness ==
    /\ run.pc = "seed"
    /\ run.query = <<Segment("a", "1", FALSE), Segment("a", "2", FALSE)>>
    /\ run.params = [k \in {"a"} |-> "1"]

\* C24: a request that misses the response cache makes at most one instance
\* and enters _start at most once, and when it is answered 200 it has made
\* exactly one instance and entered _start exactly once.
C24_OneInstanceOneStart ==
    run.pc = "done" =>
        /\ run.instances <= 1
        /\ run.entries <= 1
        /\ run.status = 200 => (run.instances = 1 /\ run.entries = 1)

\* C26: the seeds of the payloads that runs of _start were given are all
\* values read from rand.Reader, each read for its own request: none is the
\* fallback of a failed read and no two requests were given the same read.
C26_SeedsAreFreshCryptoDraws ==
    /\ \A i \in DOMAIN run.used : run.used[i].crypto
    /\ \A i, j \in DOMAIN run.used : i # j => run.used[i].draw # run.used[j].draw

\* C25: when the client asks again for a path and raw query whose response
\* an earlier request of its own has stored, before that entry expires and
\* with the entry still in the map, ResponseCache.Get hits and the request is
\* answered 200 with the bytes stored, without a ModuleCache.Get, an
\* instantiation or a _start call of its own: the compile count and the
\* invocation count stay where the first request left them.
C25_RepeatServedFromCache ==
    LET c == h[Client]
    IN  (c.get.returned /\ c.get.setBySame /\ c.get.setLive /\ c.get.present) =>
            /\ c.get.hit
            /\ g[Client].pc = "done"
            /\ g[Client].resp = [status |-> 200, body |-> c.get.setData]
            /\ c.modGet = 0 /\ c.inst = 0 /\ c.start = 0

\* The second of two requests, made a second after the first stored its
\* response, has been answered from the response cache with that response;
\* one module has been compiled.
C25_Witness ==
    /\ served = 2
    /\ g[Client].pc = "done"
    /\ h[Client].get.hit /\ h[Client].get.setBySame
    /\ KeyOf(Client) \in DOMAIN lastSet
    /\ lastSet[KeyOf(Client)].time < now
    /\ g[Client].resp = [status |-> 200, body |-> lastSet[KeyOf(Client)].data]
    /\ g[Client].resp.body = "55"
    /\ h[Client].start = 0
    /\ nextMod = 2

\* The paths of the built-in endpoints.
BuiltInPaths == {"/health", "/", "/monitoring", "/stats"}

\* C27: a request whose path is neither a built-in endpoint nor a key of
\* the route table is answered 404 at once, and nothing of the dispatch
\* happens for it: no ResponseCache.Get or Set, no write of either cache map,
\* no ModuleCache.Get, no instantiation, no _start call.
C27_UnknownPathIs404 ==
    \A t \in Threads :
        (g[t].pc # "idle" /\ g[t].path \notin BuiltInPaths
                          /\ g[t].path \notin DOMAIN cfg.Routes) =>
            /\ g[t].pc = "done"
            /\ g[t].resp.status = 404
            /\ h[t].rcGet = 0 /\ h[t].rcSet = 0 /\ h[t].rcWrites = 0
            /\ ~h[t].get.returned
            /\ h[t].modGet = 0 /\ h[t].mcWrites = 0
            /\ h[t].inst = 0 /\ h[t].start = 0

\* A request for /missing has been answered 404 while another request is
\* inside the dispatch.
C27_Witness ==
    \E t, u \in Threads :
        /\ g[t].path = "/missing" /\ g[t].pc = "done" /\ g[t].resp.status = 404
        /\ h[t] = NoHistory
        /\ g[u].pc = "call"

\* C28: once the client's ResponseCache.Get has found an entry for its key
\* whose expiresAt has passed and has returned a miss, the entry is gone from
\* the response-cache map: until the request stores a new response, the key
\* takes none of the cache's capacity.
C28_ExpiredEntryRemovedOnRead ==
    LET c == h[Client]
    IN  (c.get.returned /\ c.get.present /\ ~c.get.hit /\ c.rcSet = 0) =>
            KeyOf(Client) \notin DOMAIN respCache

\* C29: a step of ModuleCache.Get that takes an entry out of the full module
\* cache to make room takes out the least recently used one: the key whose
\* latest use by a Get (found in the map, or stored) is the oldest of those
\* of the keys in the map.
C29_EvictsLeastRecentlyUsed ==
    [][ \A t \in Threads :
          (At(t) = "evict" /\ Op(t).cache = "mod" /\ At(t)' = "store"
             /\ DOMAIN modCache' # DOMAIN modCache) =>
                DOMAIN modCache \ DOMAIN modCache' = {Head(lk.used)}
      ]_vars

\* The route table a config file describes: for every path of a Route line,
\* the wasm file of the last such line.
RoutePaths(file) ==
    {file.lines[i].path : i \in {j \in DOMAIN file.lines : file.lines[j].kind = "Route"}}

LastLine(file, path) ==
    CHOOSE i \in DOMAIN file.lines :
        /\ file.lines[i].kind = "Route" /\ file.lines[i].path = path
        /\ \A j \in DOMAIN file.lines :
              (file.lines[j].kind = "Route" /\ file.lines[j].path = path) => j <= i

TableOf(file) ==
    [p \in RoutePaths(file) |->
        [Path |-> p, WasmFile |-> file.lines[LastLine(file, p)].wasm]]

\* C30: a reload swaps the route table in one step and never writes to the
\* map that is live.  The map GetRoutes returns is the complete table of the
\* file that was live when the call took the lock or of the file that is
\* live when it returns, and is a map of its own, shared with no Config and
\* no other caller; whenever no Update is under way the live map is the
\* complete table of one file; no step writes to the map the live Config
\* points to; and a reload whose file cannot be read changes neither the
\* port nor the routes of the live Config.
C30_ReloadIsAtomic ==
    [][ reload.on =>
          /\ \A t \in Threads :
                (reload.r[t].pc = "runlock" /\ reload'.r[t].pc = "idle") =>
                   LET copy == reload'.r[t].copy
                       got == reload'.heap[copy]
                   IN  /\ \/ got = TableOf(reload.r[t].seen)
                          \/ got = TableOf(reload'.cur)
                       /\ copy \notin {reload'.c.live.Routes, reload'.c.new.Routes}
                       /\ \A u \in Threads \ {t} : reload'.r[u].copy # copy
          /\ reload'.c.live.mu.writer = "none" =>
                reload'.heap[reload'.c.live.Routes] = TableOf(reload'.cur)
          /\ reload'.c.live.Routes = reload.c.live.Routes =>
                reload'.heap[reload.c.live.Routes] = reload.heap[reload.c.live.Routes]
          /\ (reload.w.pc # "idle" /\ ~reload.w.file.ok) =>
                /\ reload'.c.live.Port = reload.c.live.Port
                /\ reload'.c.live.Routes = reload.c.live.Routes
                /\ reload'.w.pc \in {"lock", "read", "idle"}
      ]_vars

\* One goroutine's GetRoutes has returned the complete table of the first
\* file, the table of another file has been swapped in by a reload since,
\* and a second GetRoutes, called while the reload held the lock, has
\* returned the complete new table in a map of its own.
C30_Witness ==
    /\ reload.on
    /\ \E t, u \in Threads :
         /\ t # u
         /\ reload.r[t].pc = "idle" /\ reload.r[u].pc = "idle"
         /\ reload.r[t].copy \in DOMAIN reload.heap
         /\ reload.r[u].copy \in DOMAIN reload.heap
         /\ reload.heap[reload.r[u].copy] = TableOf(reload.cur)
         /\ reload.heap[reload.r[t].copy] # TableOf(reload.cur)
         /\ reload.heap[reload.r[t].copy] \in {TableOf(f) : f \in Readable}
         /\ reload.r[u].copy # reload.c.live.Routes

\* C31: once LoadConfig has returned a Config, its cache size and cache TTL
\* are positive whatever the file said: a cache_size that is absent or not
\* positive has become 1024, a cache_ttl that is absent or not positive 300,
\* an empty port "8080", and any other value is the file's; both caches are
\* made with a capacity of at least 1.
C31_DefaultsMakeConfigPositive ==
    boot.pc \in {"loaded", "serving"} =>
        /\ boot.cfg.CacheSize > 0 /\ boot.cfg.CacheTTL > 0 /\ boot.port # ""
        /\ boot.cfg.CacheSize = IF boot.file.CacheSize > 0 THEN boot.file.CacheSize
                                ELSE 1024
        /\ boot.cfg.CacheTTL = IF boot.file.CacheTTL > 0 THEN boot.file.CacheTTL
                               ELSE 300
        /\ boot.port = IF boot.file.Port # "" THEN boot.file.Port ELSE "8080"
        /\ boot.pc = "serving" => (boot.modSize >= 1 /\ boot.respSize >= 1)

\* A server has been made from a config file with cache_size 0, a negative
\* cache_ttl and no port.
C31_Witness ==
    /\ boot.pc = "serving"
    /\ boot.file.CacheSize = 0 /\ boot.file.CacheTTL = -1 /\ boot.file.Port = ""
    /\ boot.modSize = 1024 /\ boot.respSize = 1024
    /\ boot.cfg.CacheTTL = 300 /\ boot.port = "8080"

\* C36: /health is always answered by the health handler, whatever the
\* routes; / is answered by the index page exactly when index_page is true,
\* /monitoring and /stats by the dashboard exactly when monitoring is true;
\* with the flag false these paths, like any other path, get the route of
\* the route table or 404.
C36_BuiltInsOnlyWhileEnabled ==
    (boot.pc = "serving" /\ boot.path # "") =>
        LET looked == IF boot.path \in DOMAIN boot.cfg.Routes THEN "route"
                      ELSE "notFound"
        IN  /\ boot.path = "/health" => boot.handler = "health"
            /\ boot.path = "/" =>
                  boot.handler = IF boot.cfg.IndexPage THEN "index" ELSE looked
            /\ boot.path \in {"/monitoring", "/stats"} =>
                  boot.handler = IF boot.cfg.Monitoring THEN "monitoring" ELSE looked
            /\ boot.path \notin {"/health", "/", "/monitoring", "/stats"} =>
                  boot.handler = looked

\* With monitoring switched off in the config file, a request for /stats has
\* got the route configured at that path; /health is routed in the same
\* table.
C36_Witness ==
    /\ boot.pc = "serving"
    /\ "monitoring" \in boot.file.Keys /\ ~boot.cfg.Monitoring
    /\ {"/stats", "/health"} \subseteq DOMAIN boot.cfg.Routes
    /\ boot.path = "/stats" /\ boot.handler = "route"

Produced == 1..(nextMod - 1)

\* C34: no compiled module is orphaned: every module CompileModule has
\* produced that no request in flight still holds is the value stored under
\* some path in the module cache, or has been closed; also the module that
\* another request's store for the same path has overwritten.
C34_NoOrphanedModule ==
    \A m \in Produced :
        \/ InUse(m)
        \/ \E p \in DOMAIN modCache : modCache[p] = m
        \/ m \in closedMods

\* The sum of the values of a map of counters.
RECURSIVE SumOver(_, _)
SumOver(m, keys) ==
    IF keys = {} THEN 0
    ELSE LET k == CHOOSE x \in keys : TRUE
         IN  m[k] + SumOver(m, keys \ {k})

Balanced(c) ==
    /\ c.Total = c.Success + c.Error
    /\ c.Total = SumOver(c.RouteStats, DOMAIN c.RouteStats)

\* C35: every request, whatever its path and outcome, has added exactly one
\* to TotalRequests when it finishes, and the counters balance wherever they
\* can be observed: in every copy GetStats has returned, and in the
\* ServerStats itself whenever no IncrementRequest holds the mutex,
\* TotalRequests = SuccessRequests + ErrorRequests = the sum of RouteStats.
C35_RequestCountersBalance ==
    stats.on =>
        /\ \A t \in Threads : stats.r[t].got => Balanced(stats.r[t].snap)
        /\ stats.mu.writer = "none" =>
              /\ Balanced(stats.c)
              /\ stats.c.Total = stats.finished

\* One request has finished; the monitoring handler of a second one has got
\* its copy from GetStats, with that request counted, and is now in the
\* middle of its own IncrementRequest, where the counters do not balance.
C35_Witness ==
    /\ stats.on
    /\ \E t \in Threads :
         /\ stats.r[t].got /\ stats.r[t].snap.Total = 1
         /\ StatsAt(t) = "outcome" /\ stats.mu.writer = t
         /\ stats.finished = 1
         /\ stats.c.Total # stats.c.Success + stats.c.Error
====
